---- MODULE Spec2Model ----
(***************************************************************************)
(* Lifecycle and validity-chain model of the LMDB Ruby extension           *)
(* (ext/lmdb_ext/lmdb_ext.c): Environment, Transaction, Database and       *)
(* Cursor records, their reference counts, the host objects whose          *)
(* finalizers release them, the scoped-block forms, and a record of the   *)
(* calls the layer issues to the storage engine.                           *)
(***************************************************************************)
EXTENDS Integers, Sequences, FiniteSets, TLC

\* ------------------------------------------------------------------ bounds
MaxTxn == 3
MaxDb == 1
MaxCur == 1
MaxDepth == 2

Txns == 1..MaxTxn
Dbs == 1..MaxDb
Curs == 1..MaxCur

\* The failure a block body can raise.
Failures == {"BodyError"}

VARIABLES
    env,      \* the Environment record and its host object
    tx,       \* Transaction records and host objects, by id
    db,       \* Database records and host objects, by id
    cur,      \* Cursor records and host objects, by id
    log,      \* which engine handles the layer has handed back, and which transactions it ended
    stack,    \* scoped blocks whose body is running, innermost last
    exc,      \* the failure unwinding through the scoped blocks, or "none"
    exiting,  \* the interpreter is shutting down: every finalizer runs, in any order
    result    \* the last step: operation, receiver, argument, outcome, engine calls made

vars == <<env, tx, db, cur, log, stack, exc, exiting, result>>

\* ------------------------------------------------------------------ records
\* typedef struct { MDB_env* env; int refcount; } Environment, plus the host
\* object: made (constructed), host (finalizer not yet run), freed (free() called).
NoEnv == [made |-> FALSE, handle |-> FALSE, refcount |-> 0, freed |-> FALSE, host |-> FALSE]

\* struct Transaction: txn (handle non-null), parent (0 = none), refcount.
NoTxn == [alloc |-> FALSE, txn |-> FALSE, parent |-> 0, refcount |-> 0, freed |-> FALSE, host |-> FALSE]

\* struct Database: transaction, open (dbi is opaque).
NoDb == [alloc |-> FALSE, transaction |-> 0, open |-> FALSE, host |-> FALSE]

\* struct Cursor: transaction, cur (handle non-null).
NoCur == [alloc |-> FALSE, transaction |-> 0, cur |-> FALSE, host |-> FALSE]

\* The engine resources the layer has already handed back to the engine.
NoLog ==
    [ term     |-> [t \in Txns |-> FALSE],   \* mdb_txn_commit/abort was called on t's handle
      ended    |-> [t \in Txns |-> FALSE],   \* t was committed or aborted by a method or a block exit
      envclose |-> FALSE,                    \* mdb_env_close was called
      dbclose  |-> [d \in Dbs |-> FALSE],    \* mdb_dbi_close was called for d's dbi
      curclose |-> [c \in Curs |-> FALSE] ]  \* mdb_cursor_close was called on c's handle

\* What one handler did besides changing fields.
NoEv ==
    [ calls     |-> {},      \* <<function, id>>: engine calls issued on a transaction or cursor
      again     |-> {},      \* <<kind, id>>: a release call for a resource already handed back
      fin       |-> {},      \* the transactions whose release block in transaction_deref ran
      uaf       |-> FALSE,   \* a released record was read or written
      dfree     |-> FALSE,   \* free() of a record already freed
      closedenv |-> FALSE,   \* an engine call issued after mdb_env_close
      seq       |-> << >>,   \* <<step, id>>: the releases and reference drops, in program order
      rejected  |-> {} ]     \* <<function, id>>: engine calls that returned a non-zero status

Res(op, obj, arg, out, ev) == [op |-> op, obj |-> obj, arg |-> arg, out |-> out, ev |-> ev]

\* ------------------------------------------------------------------ helpers
\* A validity test that looks at the transaction's own handle only.
transaction_active_own(txs, t) == t = 0 \/ txs[t].txn

\* transaction_active: walk the parent links, stop at the first null handle.
RECURSIVE transaction_active(_, _)
transaction_active(txs, t) ==
    IF t = 0 THEN TRUE
    ELSE IF ~txs[t].txn THEN FALSE
    ELSE transaction_active(txs, txs[t].parent)

\* The records transaction_active reads: the chain up to the first null handle.
RECURSIVE Visited(_, _)
Visited(txs, t) ==
    IF t = 0 THEN {}
    ELSE IF ~txs[t].txn THEN {t}
    ELSE {t} \cup Visited(txs, txs[t].parent)

\* A read or write of the records ts: undefined if one of them was released.
Touch(ev, txs, ts) ==
    IF \E t \in ts : txs[t].freed THEN [ev EXCEPT !.uaf = TRUE] ELSE ev

TouchEnv(ev, e) ==
    IF e.freed THEN [ev EXCEPT !.uaf = TRUE] ELSE ev

\* One more release or reference drop of the running handler.
Step(M, what, id) == [M EXCEPT !.ev.seq = Append(@, <<what, id>>)]

\* An engine call on transaction or cursor id.
EngCall(M, f, id) ==
    [M EXCEPT !.ev.calls = @ \cup {<<f, id>>}, !.ev.closedenv = @ \/ M.log.envclose]

\* The engine returned a non-zero status from function f.
Rejected(M, f, id) == [M EXCEPT !.ev.rejected = @ \cup {<<f, id>>}]

\* The statuses a call can return: mdb_txn_abort and mdb_txn_reset return
\* nothing, every other function returns zero (TRUE) or an error code (FALSE).
EngineStatus(f) == IF f \in {"abort", "reset"} THEN {TRUE} ELSE BOOLEAN

\* The call's effects, with its status recorded when it is an error code.
Returned(M, f, id, ok) == IF ok THEN M ELSE Rejected(M, f, id)

\* mdb_txn_commit / mdb_txn_abort called with transaction t's handle field.
EngTerminate(M, t, how) ==
    IF M.tx[t].txn
    THEN [Step(EngCall(M, how, t), how, t) EXCEPT
             !.log.term[t] = TRUE,
             !.ev.again = IF M.log.term[t] THEN @ \cup {<<"txn", t>>} ELSE @]
    ELSE Step(EngCall(M, how \o "_null", t), how \o "_null", t)

\* mdb_env_close(environment->env)
EngEnvClose(M) ==
    [Step(M, "env_close", 0) EXCEPT !.log.envclose = TRUE,
              !.ev.again = IF M.log.envclose THEN @ \cup {<<"env", 0>>} ELSE @]

\* free(environment)
FreeEnv(M) == [M EXCEPT !.env.freed = TRUE, !.ev.dfree = @ \/ M.env.freed]

\* free(transaction)
FreeTxn(M, t) == [M EXCEPT !.tx[t].freed = TRUE, !.ev.dfree = @ \/ M.tx[t].freed]

\* environment_deref
environment_deref(M) ==
    LET M1 == [M EXCEPT !.ev = TouchEnv(@, M.env), !.env.refcount = @ - 1]
    IN IF M1.env.refcount = 0
       THEN FreeEnv(IF M1.env.handle THEN EngEnvClose(M1) ELSE M1)
       ELSE M1

\* An implicit-abort test that looks at the transaction's own handle only.
deref_active_own(txs, t) == txs[t].txn

\* The activity test transaction_deref applies before its implicit abort.
deref_active(txs, t) == transaction_active(txs, t)

\* transaction_deref: on reaching zero, implicit abort if active, then the
\* parent's and the environment's references, then free().
RECURSIVE transaction_deref(_, _)
parent_deref(M, t) ==
    IF M.tx[t].parent # 0
    THEN transaction_deref(Step(M, "parent_deref", t), M.tx[t].parent)
    ELSE M

\* A release block that drops the parent's and the environment's references
\* first and aborts afterwards.
transaction_deref_late(M, t) ==
    LET M1 == [M EXCEPT !.ev = Touch(@, M.tx, {t}), !.tx[t].refcount = @ - 1]
    IN IF M1.tx[t].refcount = 0
       THEN LET act == deref_active(M1.tx, t)
                M2  == [M1 EXCEPT !.ev = Touch([@ EXCEPT !.fin = @ \cup {t}], M1.tx,
                                               Visited(M1.tx, t))]
                M3  == parent_deref(M2, t)
                M4  == environment_deref(Step(M3, "env_deref", t))
                M5  == IF act THEN EngTerminate(M4, t, "abort") ELSE M4
            IN FreeTxn(M5, t)
       ELSE M1

transaction_deref(M, t) ==
    LET M1 == [M EXCEPT !.ev = Touch(@, M.tx, {t}), !.tx[t].refcount = @ - 1]
    IN IF M1.tx[t].refcount = 0
       THEN LET act == deref_active(M1.tx, t)
                M2  == [M1 EXCEPT !.ev = Touch([@ EXCEPT !.fin = @ \cup {t}], M1.tx,
                                               Visited(M1.tx, t))]
                M3  == IF act THEN EngTerminate(M2, t, "abort") ELSE M2
                M4  == parent_deref(M3, t)
                M5  == environment_deref(Step(M4, "env_deref", t))
            IN FreeTxn(M5, t)
       ELSE M1

\* The fields and counters a handler works on, with its events still empty.
Heap == [tx |-> tx, env |-> env, db |-> db, cur |-> cur, log |-> log, ev |-> NoEv]

\* A handler's outcome: the new fields and counters, and what it reports.
Done(M, op, obj, arg, out) ==
    /\ tx' = M.tx /\ env' = M.env /\ db' = M.db /\ cur' = M.cur /\ log' = M.log
    /\ result' = Res(op, obj, arg, out, M.ev)

\* The first unused record of each kind.
FreshTxn == IF \E t \in Txns : ~tx[t].alloc THEN CHOOSE t \in Txns : ~tx[t].alloc /\ \A u \in 1..(t-1) : tx[u].alloc ELSE 0
FreshDb == IF \E d \in Dbs : ~db[d].alloc THEN CHOOSE d \in Dbs : ~db[d].alloc /\ \A u \in 1..(d-1) : db[u].alloc ELSE 0
FreshCur == IF \E c \in Curs : ~cur[c].alloc THEN CHOOSE c \in Curs : ~cur[c].alloc /\ \A u \in 1..(c-1) : cur[u].alloc ELSE 0

\* Host code runs: no failure is unwinding and the interpreter is not exiting.
Running == exc = "none" /\ ~exiting

\* A block frame: the handler suspended in rb_yield, the object it passed to
\* the body, and its receiver.
Frame(kind, obj, self) == [kind |-> kind, obj |-> obj, self |-> self]
Top == stack[Len(stack)]
Pop == SubSeq(stack, 1, Len(stack) - 1)
CanPush == Len(stack) < MaxDepth

\* What a handler that re-raises leaves behind: at the outermost block the
\* failure reaches the caller; inside another body that body may rescue it.
Rethrown(failure, rest) ==
    IF rest = << >> THEN {"none"} ELSE {failure, "none"}

Outcome(failure) == IF failure = "none" THEN "ok" ELSE failure

\* The receiver of a method: an object the host still has.
IsTxn(t) == tx[t].alloc /\ tx[t].host
IsDb(d) == db[d].alloc /\ db[d].host
IsCur(c) == cur[c].alloc /\ cur[c].host

\* ------------------------------------------------------------------ initial state
Init ==
    /\ env = NoEnv
    /\ tx = [t \in Txns |-> NoTxn]
    /\ db = [d \in Dbs |-> NoDb]
    /\ cur = [c \in Curs |-> NoCur]
    /\ log = NoLog
    /\ stack = << >>
    /\ exc = "none"
    /\ exiting = FALSE
    /\ result = Res("init", 0, 0, "ok", NoEv)

\* ------------------------------------------------------------------ Environment
\* environment_check (the ENVIRONMENT macro): raises when the handle is null.
environment_check(e) == e.handle

\* The ENVIRONMENT macro's read of the record.
EnvChecked == [Heap EXCEPT !.ev = TouchEnv(@, env)]

\* LMDB.open / Environment.open: a new Environment with refcount 1; with a
\* block, rb_ensure(rb_yield, venv, environment_close, venv) suspends here.
environment_open(block) ==
    /\ Running /\ ~env.made
    /\ block => CanPush
    /\ \E ok \in BOOLEAN :
        IF ok
        THEN /\ Done([Heap EXCEPT !.env = [made |-> TRUE, handle |-> TRUE, refcount |-> 1,
                                           freed |-> FALSE, host |-> TRUE]],
                     "open", 0, 0, "ok")
             /\ stack' = IF block THEN Append(stack, Frame("open", 0, 0)) ELSE stack
        ELSE /\ Done(Rejected(Heap, "env_open", 0), "open", 0, 0, "EngineError")
             /\ stack' = stack
    /\ UNCHANGED <<exc, exiting>>

\* The body of environment_close: the guard, mdb_env_close, env = 0.
env_close(M) ==
    IF environment_check(M.env)
    THEN [EngEnvClose(M) EXCEPT !.env.handle = FALSE]
    ELSE M

\* environment_close as the method Environment#close.
environment_close ==
    /\ Running /\ env.made /\ env.host
    /\ Done(env_close(EnvChecked), "close", 0, 0,
            IF environment_check(env) THEN "ok" ELSE "ClosedError")
    /\ UNCHANGED <<stack, exc, exiting>>

\* environment_close as the ensure clause of environment_open's block: it runs
\* on every exit of the body; when it raises, its error replaces the failure.
environment_open_exit ==
    /\ ~exiting /\ stack # << >> /\ Top.kind = "open"
    /\ LET failure == IF environment_check(env) THEN exc ELSE "ClosedError"
       IN /\ Done(env_close(EnvChecked), "open_exit", 0, 0, Outcome(failure))
          /\ exc' \in Rethrown(failure, Pop)
    /\ stack' = Pop
    /\ UNCHANGED exiting

\* stat, info, copy, sync, flags, flags=, path: guarded calls of the engine.
environment_stat ==
    /\ Running /\ env.made /\ env.host
    /\ \E ok \in BOOLEAN :
        Done(IF environment_check(env) THEN Returned(EnvChecked, "stat", 0, ok) ELSE EnvChecked,
             "stat", 0, 0,
             IF ~environment_check(env) THEN "ClosedError"
             ELSE IF ok THEN "ok" ELSE "EngineError")
    /\ UNCHANGED <<stack, exc, exiting>>

\* A new Transaction record, as environment_transaction and
\* transaction_transaction fill it in.
NewTxn(parent) ==
    [alloc |-> TRUE, txn |-> TRUE, parent |-> parent, refcount |-> 1, freed |-> FALSE, host |-> TRUE]

\* What the caller passes as the optional readonly argument.
ReadonlyArgs == {"omitted", "nil", "false", "true"}

\* The flags environment_transaction passes to mdb_txn_begin, as the call it
\* makes: MDB_RDONLY when one argument was given and it is not nil, else 0.
txn_begin(readonly) == IF readonly \notin {"omitted", "nil"} THEN "begin_rdonly" ELSE "begin"

\* environment_transaction up to rb_yield: a root Transaction owning one
\* reference to the Environment.
environment_transaction(readonly, block) ==
    /\ Running /\ env.made /\ env.host
    /\ block => CanPush
    /\ IF ~environment_check(env)
       THEN /\ Done(EnvChecked, "begin", 0, readonly, "ClosedError")
            /\ stack' = stack
       ELSE \E ok \in BOOLEAN :
            IF ok /\ FreshTxn # 0
            THEN /\ Done([EngCall(EnvChecked, txn_begin(readonly), 0) EXCEPT
                             !.tx[FreshTxn] = NewTxn(0), !.env.refcount = @ + 1],
                         "begin", 0, readonly, "ok")
                 /\ stack' = IF block THEN Append(stack, Frame("begin", FreshTxn, 0)) ELSE stack
            ELSE /\ Done(Rejected(EngCall(EnvChecked, txn_begin(readonly), 0), "begin", 0),
                         "begin", 0, readonly, "EngineError")
                 /\ stack' = stack
    /\ UNCHANGED <<exc, exiting>>

\* ------------------------------------------------------------------ Transaction
\* A TRANSACTION macro that lets every transaction through.
transaction_check_none(txs, t) == TRUE

\* transaction_check (the TRANSACTION macro): raises unless transaction_active.
transaction_check(txs, t) == transaction_active(txs, t)

\* The TRANSACTION macro's reads of the records of t's chain.
Checked(M, t) == [M EXCEPT !.ev = Touch(@, M.tx, Visited(M.tx, t))]

\* A termination that also nulls the handles of the transaction's children.
terminate_children(M, t, how) ==
    [EngTerminate(M, t, how) EXCEPT
        !.tx = [u \in Txns |-> IF u = t \/ M.tx[u].parent = t
                               THEN [M.tx[u] EXCEPT !.txn = FALSE] ELSE M.tx[u]],
        !.log.ended[t] = TRUE]

\* transaction_abort / transaction_commit: the engine call, then the handle
\* is nulled; the value mdb_txn_commit returns is dropped.
terminate(M, t, how) ==
    [EngTerminate(M, t, how) EXCEPT !.tx[t].txn = FALSE, !.log.ended[t] = TRUE]

transaction_terminate(t, how) ==
    /\ Running /\ IsTxn(t)
    /\ IF transaction_check(tx, t)
       THEN \E ok \in EngineStatus(how) :
            Done(Returned(terminate(Checked(Heap, t), t, how), how, t, ok), how, t, 0, "ok")
       ELSE Done(Checked(Heap, t), how, t, 0, "TerminatedError")
    /\ UNCHANGED <<stack, exc, exiting>>

transaction_abort(t) == transaction_terminate(t, "abort")

transaction_commit(t) == transaction_terminate(t, "commit")

\* transaction_renew / transaction_reset: an engine call on the handle; the
\* value mdb_txn_renew returns is dropped; no field of the layer changes.
transaction_suspend(t, op) ==
    /\ Running /\ IsTxn(t)
    /\ IF transaction_check(tx, t)
       THEN \E ok \in EngineStatus(op) :
            Done(Returned(EngCall(Checked(Heap, t), op, t), op, t, ok), op, t, 0, "ok")
       ELSE Done(Checked(Heap, t), op, t, 0, "TerminatedError")
    /\ UNCHANGED <<stack, exc, exiting>>

transaction_renew(t) == transaction_suspend(t, "renew")

transaction_reset(t) == transaction_suspend(t, "reset")

\* transaction_environment / transaction_parent: both start with TRANSACTION.
transaction_getter(t, op) ==
    /\ Running /\ IsTxn(t)
    /\ Done(Checked(Heap, t), op, t, 0,
            IF transaction_check(tx, t) THEN "ok" ELSE "TerminatedError")
    /\ UNCHANGED <<stack, exc, exiting>>

transaction_environment(t) == transaction_getter(t, "environment")

transaction_parent(t) == transaction_getter(t, "parent")

\* transaction_transaction up to rb_yield: a child Transaction; the child's
\* parent link is set and the Environment's refcount is incremented.
child_record(M, t, c) ==
    [M EXCEPT !.tx[c] = NewTxn(t), !.env.refcount = @ + 1, !.ev = TouchEnv(@, M.env)]

transaction_transaction(t, block) ==
    /\ Running /\ IsTxn(t)
    /\ block => CanPush
    /\ IF ~transaction_check(tx, t)
       THEN /\ Done(Checked(Heap, t), "nested", t, 0, "TerminatedError")
            /\ stack' = stack
       ELSE \E ok \in BOOLEAN :
            IF ok /\ FreshTxn # 0
            THEN /\ Done(child_record(EngCall(Checked(Heap, t), "begin", t), t, FreshTxn),
                         "nested", t, 0, "ok")
                 /\ stack' = IF block THEN Append(stack, Frame("nested", FreshTxn, t)) ELSE stack
            ELSE /\ Done(Rejected(EngCall(Checked(Heap, t), "begin", t), "begin", t),
                         "nested", t, 0, "EngineError")
                 /\ stack' = stack
    /\ UNCHANGED <<exc, exiting>>

\* An exit that commits whatever the body did.
block_call_commit(failure) == "commit"

\* The rest of environment_transaction and of transaction_transaction, after
\* rb_protect(rb_yield, vtxn, &exception) returns: abort and re-raise on a
\* failure, commit otherwise; the handle is nulled either way.
block_call(failure) == IF failure # "none" THEN "abort" ELSE "commit"

block_terminate(k) ==
    /\ ~exiting /\ stack # << >> /\ Top.kind = k
    /\ LET t == Top.obj
           how == block_call(exc)
       IN /\ \E ok \in EngineStatus(how) :
                Done(Returned(terminate([Heap EXCEPT !.ev = Touch(@, tx, {t})], t, how), how, t, ok),
                     k \o "_exit", t, 0, Outcome(exc))
          /\ exc' \in Rethrown(exc, Pop)
    /\ stack' = Pop
    /\ UNCHANGED exiting

environment_transaction_exit == block_terminate("begin")

transaction_transaction_exit == block_terminate("nested")

\* The body of a block raises.
Raise(e) ==
    /\ Running /\ stack # << >>
    /\ exc' = e
    /\ Done(Heap, "raise", 0, 0, e)
    /\ UNCHANGED <<stack, exiting>>

\* ------------------------------------------------------------------ Database
\* database_check (the DATABASE macro): the remembered transaction's chain
\* first, then the open flag.
database_check(d) ==
    IF ~transaction_check(tx, db[d].transaction) THEN "TerminatedError"
    ELSE IF ~db[d].open THEN "ClosedError"
    ELSE "ok"

\* A gate that checks the Database only and lets any transaction argument through.
data_check_self(d, x) == database_check(d)

\* The checks a data operation makes: DATABASE(self), then TRANSACTION(vtxn).
data_check(d, x) ==
    IF database_check(d) # "ok" THEN database_check(d)
    ELSE IF ~transaction_check(tx, x) THEN "TerminatedError"
    ELSE "ok"

DbChecked(M, d) == Checked(M, M.db[d].transaction)

DataChecked(M, d, x) ==
    IF database_check(d) = "ok" THEN Checked(DbChecked(M, d), x) ELSE DbChecked(M, d)

\* mdb_dbi_close(database->transaction->environment->env, dbi)
DbiClose(M, d) ==
    [Step(M, "dbi_close", d) EXCEPT !.ev = TouchEnv(Touch([@ EXCEPT !.closedenv = @ \/ M.log.envclose],
                                    M.tx, {M.db[d].transaction}), M.env),
              !.ev.again = IF M.log.dbclose[d] THEN @ \cup {<<"db", d>>} ELSE @,
              !.log.dbclose[d] = TRUE]

\* database_open (Transaction#open): a Database remembering the transaction,
\* whose refcount is incremented.
database_open(t) ==
    /\ Running /\ IsTxn(t)
    /\ IF ~transaction_check(tx, t)
       THEN Done(Checked(Heap, t), "open_database", t, 0, "TerminatedError")
       ELSE \E ok \in BOOLEAN :
            IF ok /\ FreshDb # 0
            THEN Done([EngCall(Checked(Heap, t), "dbi_open", t) EXCEPT
                          !.db[FreshDb] = [alloc |-> TRUE, transaction |-> t, open |-> TRUE,
                                           host |-> TRUE],
                          !.tx[t].refcount = @ + 1],
                      "open_database", t, 0, "ok")
            ELSE Done(Rejected(EngCall(Checked(Heap, t), "dbi_open", t), "dbi_open", t),
                      "open_database", t, 0, "EngineError")
    /\ UNCHANGED <<stack, exc, exiting>>

\* database_close
database_close(d) ==
    /\ Running /\ IsDb(d)
    /\ IF database_check(d) = "ok"
       THEN Done([DbiClose(DbChecked(Heap, d), d) EXCEPT !.db[d].open = FALSE],
                 "db_close", d, 0, "ok")
       ELSE Done(DbChecked(Heap, d), "db_close", d, 0, database_check(d))
    /\ UNCHANGED <<stack, exc, exiting>>

\* database_stat, database_get, database_put, database_delete: the two
\* checks, then one engine call whose status check() turns into an error.
database_get(d, x) ==
    /\ Running /\ IsDb(d) /\ IsTxn(x)
    /\ IF data_check(d, x) # "ok"
       THEN Done(DataChecked(Heap, d, x), "get", d, x, data_check(d, x))
       ELSE \E ok \in BOOLEAN :
            Done(Returned(EngCall(DataChecked(Heap, d, x), "get", x), "get", x, ok), "get", d, x,
                 IF ok THEN "ok" ELSE "EngineError")
    /\ UNCHANGED <<stack, exc, exiting>>

\* A drop that leaves the open flag as it is.
database_empty_open(d, x, op) ==
    /\ Running /\ IsDb(d) /\ IsTxn(x)
    /\ IF data_check(d, x) # "ok"
       THEN Done(DataChecked(Heap, d, x), op, d, x, data_check(d, x))
       ELSE \E ok \in BOOLEAN :
            Done(Returned(EngCall(DataChecked(Heap, d, x), op, x), op, x, ok), op, d, x,
                 IF ok THEN "ok" ELSE "EngineError")
    /\ UNCHANGED <<stack, exc, exiting>>

\* database_drop (del = 1, then open = 0) and database_clear (del = 0).
database_empty(d, x, op) ==
    /\ Running /\ IsDb(d) /\ IsTxn(x)
    /\ IF data_check(d, x) # "ok"
       THEN Done(DataChecked(Heap, d, x), op, d, x, data_check(d, x))
       ELSE \E ok \in BOOLEAN :
            IF ok
            THEN Done([EngCall(DataChecked(Heap, d, x), op, x) EXCEPT
                          !.db[d].open = (op # "drop")],
                      op, d, x, "ok")
            ELSE Done(Rejected(EngCall(DataChecked(Heap, d, x), op, x), op, x),
                      op, d, x, "EngineError")
    /\ UNCHANGED <<stack, exc, exiting>>

database_drop(d, x) == database_empty(d, x, "drop")

database_clear(d, x) == database_empty(d, x, "clear")

\* database_cursor up to rb_yield: a Cursor bound to the transaction argument,
\* whose refcount is incremented.
database_cursor(d, x, block) ==
    /\ Running /\ IsDb(d) /\ IsTxn(x)
    /\ block => CanPush
    /\ IF data_check(d, x) # "ok"
       THEN /\ Done(DataChecked(Heap, d, x), "cursor", d, x, data_check(d, x))
            /\ stack' = stack
       ELSE \E ok \in BOOLEAN :
            IF ok /\ FreshCur # 0
            THEN /\ Done([EngCall(DataChecked(Heap, d, x), "cursor_open", x) EXCEPT
                             !.cur[FreshCur] = [alloc |-> TRUE, transaction |-> x,
                                                cur |-> TRUE, host |-> TRUE],
                             !.tx[x].refcount = @ + 1],
                         "cursor", d, x, "ok")
                 /\ stack' = IF block THEN Append(stack, Frame("cursor", FreshCur, d)) ELSE stack
            ELSE /\ Done(Rejected(EngCall(DataChecked(Heap, d, x), "cursor_open", x),
                                  "cursor_open", x),
                         "cursor", d, x, "EngineError")
                 /\ stack' = stack
    /\ UNCHANGED <<exc, exiting>>

\* ------------------------------------------------------------------ Cursor
\* cursor_check (the CURSOR macro)
cursor_check(c) ==
    IF ~transaction_check(tx, cur[c].transaction) THEN "TerminatedError"
    ELSE IF ~cur[c].cur THEN "ClosedError"
    ELSE "ok"

CurChecked(M, c) == Checked(M, M.cur[c].transaction)

\* mdb_cursor_close(cursor->cur)
EngCurClose(M, c) ==
    [Step(M, "cursor_close", c) EXCEPT !.log.curclose[c] = TRUE,
              !.ev.again = IF M.log.curclose[c] THEN @ \cup {<<"cur", c>>} ELSE @]

\* A close that leaves the Cursor's handle field as it is.
cur_close_keep(M, c) ==
    IF cursor_check(c) = "ok" THEN EngCurClose(M, c) ELSE M

\* The body of cursor_close: the guard, mdb_cursor_close, cur = 0.
cur_close(M, c) ==
    IF cursor_check(c) = "ok"
    THEN [EngCurClose(M, c) EXCEPT !.cur[c].cur = FALSE]
    ELSE M

\* cursor_close as the method Cursor#close.
cursor_close(c) ==
    /\ Running /\ IsCur(c)
    /\ Done(cur_close(CurChecked(Heap, c), c), "cur_close", c, 0, cursor_check(c))
    /\ UNCHANGED <<stack, exc, exiting>>

\* cursor_close as the ensure clause of database_cursor's block.
database_cursor_exit ==
    /\ ~exiting /\ stack # << >> /\ Top.kind = "cursor"
    /\ LET c == Top.obj
           failure == IF cursor_check(c) = "ok" THEN exc ELSE cursor_check(c)
       IN /\ Done(cur_close(CurChecked(Heap, c), c), "cursor_exit", c, 0, Outcome(failure))
          /\ exc' \in Rethrown(failure, Pop)
    /\ stack' = Pop
    /\ UNCHANGED exiting

\* cursor_first, cursor_next, cursor_set, cursor_set_range, cursor_delete,
\* cursor_count: the check, then one engine call under check().
cursor_first(c) ==
    /\ Running /\ IsCur(c)
    /\ IF cursor_check(c) # "ok"
       THEN Done(CurChecked(Heap, c), "first", c, 0, cursor_check(c))
       ELSE \E ok \in BOOLEAN :
            Done(Returned(EngCall(CurChecked(Heap, c), "first", c), "first", c, ok), "first", c, 0,
                 IF ok THEN "ok" ELSE "EngineError")
    /\ UNCHANGED <<stack, exc, exiting>>

\* ------------------------------------------------------------------ host GC
\* The objects a suspended handler keeps on its stack.
FramedTxn(t) == \E i \in 1..Len(stack) :
    \/ stack[i].kind \in {"begin", "nested"} /\ stack[i].obj = t
    \/ stack[i].kind = "nested" /\ stack[i].self = t
FramedDb(d) == \E i \in 1..Len(stack) : stack[i].kind = "cursor" /\ stack[i].self = d
FramedCur(c) == \E i \in 1..Len(stack) : stack[i].kind = "cursor" /\ stack[i].obj = c
FramedEnv == \E i \in 1..Len(stack) : stack[i].kind \in {"open", "begin"}

\* transaction_mark, database_mark, cursor_mark: the host objects a live host
\* object keeps alive (vparent and venv; vtxn).
MarkedTxn(t) ==
    \/ \E c \in Txns : IsTxn(c) /\ tx[c].parent = t
    \/ \E d \in Dbs : IsDb(d) /\ db[d].transaction = t
    \/ \E c \in Curs : IsCur(c) /\ cur[c].transaction = t
MarkedEnv == \E t \in Txns : IsTxn(t)

\* While the program runs the collector finalizes an object nothing refers
\* to; at interpreter exit it finalizes every object, in any order.
Sweepable(framed, marked) == IF exiting THEN TRUE ELSE exc = "none" /\ ~framed /\ ~marked

\* The interpreter exits: from here on only finalizers run.
Exit ==
    /\ Running /\ stack = << >>
    /\ exiting' = TRUE
    /\ Done(Heap, "exit", 0, 0, "ok")
    /\ UNCHANGED <<stack, exc>>

\* The Environment's finalizer: environment_deref.
environment_free ==
    /\ env.made /\ env.host
    /\ Sweepable(FramedEnv, MarkedEnv)
    /\ Done(environment_deref([Heap EXCEPT !.env.host = FALSE]), "env_free", 0, 0, "ok")
    /\ UNCHANGED <<stack, exc, exiting>>

\* A Transaction's finalizer: transaction_deref.
transaction_free(t) ==
    /\ IsTxn(t)
    /\ Sweepable(FramedTxn(t), MarkedTxn(t))
    /\ Done(transaction_deref([Heap EXCEPT !.tx[t].host = FALSE], t), "txn_free", t, 0, "ok")
    /\ UNCHANGED <<stack, exc, exiting>>

\* database_free: close the table handle if still open, release the
\* transaction reference, free the record.
database_free(d) ==
    /\ IsDb(d)
    /\ Sweepable(FramedDb(d), FALSE)
    /\ LET M1 == IF db[d].open THEN DbiClose(Heap, d) ELSE Heap
       IN Done(transaction_deref(Step([M1 EXCEPT !.db[d].host = FALSE], "db_deref", d),
                                 db[d].transaction),
               "db_free", d, 0, "ok")
    /\ UNCHANGED <<stack, exc, exiting>>

\* cursor_free: close the cursor if still open, release the transaction
\* reference, free the record.
cursor_free(c) ==
    /\ IsCur(c)
    /\ Sweepable(FramedCur(c), FALSE)
    /\ LET M1 == IF cur[c].cur THEN EngCurClose(Heap, c) ELSE Heap
       IN Done(transaction_deref(Step([M1 EXCEPT !.cur[c].host = FALSE], "cur_deref", c),
                                 cur[c].transaction),
               "cur_free", c, 0, "ok")
    /\ UNCHANGED <<stack, exc, exiting>>

\* free(transaction) / free(environment): the allocator hands the block out
\* again, so what a stale pointer finds in a released record is no longer what
\* the layer left there. The block is taken for a record of the same type:
\* handle set, refcount 1. Only a record something can still reach matters.
ReachedTxn(t) ==
    \/ tx[t].host
    \/ \E c \in Txns : tx[c].parent = t /\ (tx[c].host \/ ~tx[c].freed)
    \/ \E d \in Dbs : IsDb(d) /\ db[d].transaction = t
    \/ \E c \in Curs : IsCur(c) /\ cur[c].transaction = t

Reuse(t) ==
    /\ tx[t].freed /\ ReachedTxn(t)
    /\ <<tx[t].txn, tx[t].refcount>> # <<TRUE, 1>>
    /\ Done([Heap EXCEPT !.tx[t].txn = TRUE, !.tx[t].refcount = 1], "reuse", t, 0, "ok")
    /\ UNCHANGED <<stack, exc, exiting>>

ReuseEnv ==
    /\ env.freed
    /\ env.host \/ \E t \in Txns : tx[t].alloc /\ (tx[t].host \/ ~tx[t].freed)
    /\ <<env.handle, env.refcount>> # <<TRUE, 1>>
    /\ Done([Heap EXCEPT !.env.handle = TRUE, !.env.refcount = 1], "reuse_env", 0, 0, "ok")
    /\ UNCHANGED <<stack, exc, exiting>>

\* ------------------------------------------------------------------ specification
Next ==
    \/ \E b \in BOOLEAN : environment_open(b)
    \/ environment_close
    \/ environment_open_exit
    \/ environment_stat
    \/ \E r \in ReadonlyArgs, b \in BOOLEAN : environment_transaction(r, b)
    \/ environment_transaction_exit
    \/ \E t \in Txns : transaction_abort(t)
    \/ \E t \in Txns : transaction_commit(t)
    \/ \E t \in Txns : transaction_renew(t)
    \/ \E t \in Txns : transaction_reset(t)
    \/ \E t \in Txns : transaction_environment(t)
    \/ \E t \in Txns : transaction_parent(t)
    \/ \E t \in Txns, b \in BOOLEAN : transaction_transaction(t, b)
    \/ transaction_transaction_exit
    \/ \E e \in Failures : Raise(e)
    \/ \E t \in Txns : database_open(t)
    \/ \E d \in Dbs : database_close(d)
    \/ \E d \in Dbs, x \in Txns : database_get(d, x)
    \/ \E d \in Dbs, x \in Txns : database_drop(d, x)
    \/ \E d \in Dbs, x \in Txns : database_clear(d, x)
    \/ \E d \in Dbs, x \in Txns, b \in BOOLEAN : database_cursor(d, x, b)
    \/ database_cursor_exit
    \/ \E c \in Curs : cursor_close(c)
    \/ \E c \in Curs : cursor_first(c)
    \/ Exit
    \/ environment_free
    \/ \E t \in Txns : transaction_free(t)
    \/ \E d \in Dbs : database_free(d)
    \/ \E c \in Curs : cursor_free(c)
    \/ \E t \in Txns : Reuse(t)
    \/ ReuseEnv

Spec == Init /\ [][Next]_vars

\* Handles and reference counts: the Environment and Transaction methods,
\* Transaction#open, and the collector.
NextTxn ==
    \/ environment_open(FALSE)
    \/ environment_close
    \/ environment_stat
    \/ environment_transaction("omitted", FALSE)
    \/ \E t \in Txns : transaction_abort(t)
    \/ \E t \in Txns : transaction_commit(t)
    \/ \E t \in Txns : transaction_renew(t)
    \/ \E t \in Txns : transaction_reset(t)
    \/ \E t \in Txns : transaction_environment(t)
    \/ \E t \in Txns : transaction_parent(t)
    \/ \E t \in Txns : transaction_transaction(t, FALSE)
    \/ \E t \in Txns : database_open(t)
    \/ Exit
    \/ environment_free
    \/ \E t \in Txns : transaction_free(t)
    \/ \E d \in Dbs : database_free(d)
    \/ \E t \in Txns : Reuse(t)
    \/ ReuseEnv

SpecTxn == Init /\ [][NextTxn]_vars

\* The scoped forms of open, transaction and Transaction#transaction, with
\* bodies that commit, abort, close, nest and raise.
NextBlk ==
    \/ \E b \in BOOLEAN : environment_open(b)
    \/ environment_close
    \/ environment_open_exit
    \/ \E b \in BOOLEAN : environment_transaction("omitted", b)
    \/ environment_transaction_exit
    \/ \E t \in Txns : transaction_abort(t)
    \/ \E t \in Txns : transaction_commit(t)
    \/ \E t \in Txns, b \in BOOLEAN : transaction_transaction(t, b)
    \/ transaction_transaction_exit
    \/ \E e \in Failures : Raise(e)
    \/ Exit
    \/ environment_free
    \/ \E t \in Txns : transaction_free(t)
    \/ \E t \in Txns : Reuse(t)
    \/ ReuseEnv

SpecBlk == Init /\ [][NextBlk]_vars

\* Databases of root and nested transactions under an Environment that
\* stays open.
NextDb ==
    \/ environment_open(FALSE)
    \/ environment_transaction("omitted", FALSE)
    \/ \E t \in Txns : transaction_abort(t)
    \/ \E t \in Txns : transaction_commit(t)
    \/ \E t \in Txns : transaction_transaction(t, FALSE)
    \/ \E t \in Txns : database_open(t)
    \/ \E d \in Dbs : database_close(d)
    \/ \E d \in Dbs, x \in Txns : database_get(d, x)
    \/ \E d \in Dbs, x \in Txns : database_drop(d, x)
    \/ \E d \in Dbs, x \in Txns : database_clear(d, x)
    \/ \E t \in Txns : transaction_free(t)
    \/ \E d \in Dbs : database_free(d)
    \/ \E t \in Txns : Reuse(t)

SpecDb == Init /\ [][NextDb]_vars

\* ------------------------------------------------------------------ validity chain
\* The records on t's parent chain, t included, gathered link by link.
RECURSIVE Up(_, _)
Up(S, n) ==
    IF n = 0 THEN S ELSE Up(S \cup ({tx[s].parent : s \in S} \ {0}), n - 1)

Chain(t) == Up({t}, MaxTxn)

\* C1: a Transaction is reported active exactly when its own engine handle
\* and the handle of every ancestor on its parent chain are non-null.
C1_ValidityChain ==
    \A t \in Txns :
        tx[t].alloc => (transaction_active(tx, t) <=> \A a \in Chain(t) : tx[a].txn)

\* A commit was refused on a transaction whose own handle is non-null and
\* whose parent is terminated.
C1_Witness ==
    /\ result.op = "commit" /\ result.out = "TerminatedError"
    /\ tx[result.obj].txn
    /\ tx[result.obj].parent # 0
    /\ ~tx[tx[result.obj].parent].txn
    /\ ~transaction_active(tx, result.obj)

\* ------------------------------------------------------------------ refused operations
\* commit, abort, reset, renew, begin_nested and open_database.
TxnMethods == {"commit", "abort", "reset", "renew", "nested", "open_database"}

\* C3: a Transaction method called on a transaction whose validity chain is
\* not active raises the terminated-transaction error, issues no engine call
\* and changes no handle, refcount or record.
C3_InactiveRefused ==
    [][\A t \in Txns :
          (result'.op \in TxnMethods /\ result'.obj = t /\ ~(\A a \in Chain(t) : tx[a].txn))
          => /\ result'.out = "TerminatedError"
             /\ result'.ev.calls = {}
             /\ tx' = tx /\ env' = env /\ db' = db /\ cur' = cur /\ log' = log]_vars

\* A second commit or abort of the same transaction was refused without
\* reaching the engine.
C3_Witness ==
    /\ result.op \in {"commit", "abort"} /\ result.out = "TerminatedError"
    /\ log.term[result.obj] /\ ~tx[result.obj].txn
    /\ result.ev.calls = {}

\* C4: once the Environment has been closed, every Transaction method
\* yields a failure.
C4_ClosedEnvFails ==
    [][(log.envclose /\ ~env.handle /\ ~env.freed /\ result'.op \in TxnMethods)
       => result'.out # "ok"]_vars

\* ------------------------------------------------------------------ reference counts
\* The records and objects linked to transaction t that are not yet finalized.
Children(t) == {c \in Txns : tx[c].alloc /\ ~tx[c].freed /\ tx[c].parent = t}
DbsOf(t) == {d \in Dbs : IsDb(d) /\ db[d].transaction = t}
CursOf(t) == {c \in Curs : IsCur(c) /\ cur[c].transaction = t}
Own(host) == IF host THEN 1 ELSE 0

\* C5: the refcount of a Transaction that is not finalized is 1 for its own
\* host object plus the number of its non-finalized child Transactions,
\* Databases and Cursors.
C5_ParentCounted ==
    \A t \in Txns :
        tx[t].alloc /\ ~tx[t].freed
        => tx[t].refcount = Own(tx[t].host) + Cardinality(Children(t))
                            + Cardinality(DbsOf(t)) + Cardinality(CursOf(t))

\* C6: the Environment's refcount is 1 for its own host object plus the
\* number of non-finalized Transactions, and the record is released only when
\* no host object and no non-finalized Transaction references it.
LiveTxns == {t \in Txns : tx[t].alloc /\ ~tx[t].freed}

C6_EnvCounted ==
    /\ env.made /\ ~env.freed => env.refcount = Own(env.host) + Cardinality(LiveTxns)
    /\ env.freed => ~env.host /\ LiveTxns = {}

\* ------------------------------------------------------------------ finalization
\* C7 as stated: a finalized Transaction is implicitly aborted exactly when
\* its own engine handle is still non-null.
C7_AbortIffOwnHandle ==
    [][\A t \in result'.ev.fin : (<<"abort", t>> \in result'.ev.calls) <=> tx[t].txn]_vars

\* C7, amended: a Transaction is released only in a step that brings its
\* refcount to zero; in that step an implicit abort is issued exactly when
\* its own handle and every ancestor's handle are non-null; its parent's
\* refcount drops by one and the Environment's by one per released
\* Transaction.
C7_AbortIffChainActive ==
    [][/\ \A t \in Txns : (~tx[t].freed /\ tx'[t].freed) => t \in result'.ev.fin
       /\ \A t \in result'.ev.fin :
             /\ tx'[t].refcount = 0 /\ tx'[t].freed
             /\ (<<"abort", t>> \in result'.ev.calls) <=> (\A a \in Chain(t) : tx[a].txn)
             /\ <<"abort_null", t>> \notin result'.ev.calls
             /\ tx[t].parent # 0
                => tx'[tx[t].parent].refcount = tx[tx[t].parent].refcount - 1
       /\ result'.ev.fin # {}
          => env'.refcount = env.refcount - Cardinality(result'.ev.fin)
                             - Own(result'.op = "env_free")]_vars

\* A child whose own handle is non-null was released without an abort
\* because its parent had been committed or aborted.
C7_Witness ==
    /\ result.op = "txn_free" /\ result.obj \in result.ev.fin
    /\ tx[result.obj].txn /\ tx[result.obj].parent # 0
    /\ log.ended[tx[result.obj].parent]
    /\ <<"abort", result.obj>> \notin result.ev.calls

\* ------------------------------------------------------------------ databases and cursors
DbMethods == {"db_close", "get", "drop", "clear", "cursor"}
CurMethods == {"cur_close", "first"}

\* Transaction t or one of its ancestors was committed or aborted.
Ended(t) == \E a \in Chain(t) : log.ended[a]

\* C2: once a Transaction was committed or aborted, every Database and
\* Cursor opened under it or under a descendant rejects every operation with
\* the terminated-transaction error; commit and abort leave the Database and
\* Cursor records untouched.
C2_TerminatedRejects ==
    [][/\ \A d \in Dbs :
             (result'.op \in DbMethods /\ result'.obj = d /\ Ended(db[d].transaction))
             => result'.out = "TerminatedError"
       /\ \A c \in Curs :
             (result'.op \in CurMethods /\ result'.obj = c /\ Ended(cur[c].transaction))
             => result'.out = "TerminatedError"
       /\ result'.op \in {"commit", "abort"} => db' = db /\ cur' = cur]_vars

\* ------------------------------------------------------------------ scoped blocks
BlockExits == {"begin_exit", "nested_exit"}

C9_TerminatedOnce ==
    [][\A t \in Txns :
          (result'.op \in BlockExits /\ result'.obj = t)
          => /\ ~log.term[t] /\ log'.term[t]
             /\ result'.ev.calls \cap {<<"commit_null", t>>, <<"abort_null", t>>} = {}]_vars

\* C10: on leaving the block of open the engine's close has run exactly
\* once for the Environment and the Environment's handle is null.
C10_ClosedOnce ==
    [][result'.op = "open_exit"
       => /\ log'.envclose /\ ~env'.handle
          /\ <<"env", 0>> \notin result'.ev.again]_vars

\* ------------------------------------------------------------------ cursor blocks
\* Databases and Cursors of root transactions: the data operations,
\* Database#cursor with and without a block, bodies that close, commit,
\* abort and raise, and the collector.
NextCur ==
    \/ environment_open(FALSE)
    \/ environment_transaction("omitted", FALSE)
    \/ \E t \in Txns : transaction_abort(t)
    \/ \E t \in Txns : transaction_commit(t)
    \/ \E t \in Txns : database_open(t)
    \/ \E d \in Dbs : database_close(d)
    \/ \E d \in Dbs, x \in Txns : database_get(d, x)
    \/ \E d \in Dbs, x \in Txns : database_drop(d, x)
    \/ \E d \in Dbs, x \in Txns : database_clear(d, x)
    \/ \E d \in Dbs, x \in Txns, b \in BOOLEAN : database_cursor(d, x, b)
    \/ database_cursor_exit
    \/ \E c \in Curs : cursor_close(c)
    \/ \E c \in Curs : cursor_first(c)
    \/ \E e \in Failures : Raise(e)
    \/ \E t \in Txns : transaction_free(t)
    \/ \E d \in Dbs : database_free(d)
    \/ \E c \in Curs : cursor_free(c)

SpecCur == Init /\ [][NextCur]_vars

\* C11: whenever control leaves the block of open_cursor, by a normal return
\* or by a failure, the Cursor's engine handle has been closed and is null.
C11_CursorClosedOnExit ==
    [][result'.op = "cursor_exit"
       => log'.curclose[result'.obj] /\ ~cur'[result'.obj].cur]_vars

\* ------------------------------------------------------------------ finalization order
\* Nested transactions with Databases and Cursors, committed, aborted and
\* released by the collector while the program runs.
NextFin ==
    \/ environment_open(FALSE)
    \/ environment_transaction("omitted", FALSE)
    \/ \E t \in Txns : transaction_abort(t)
    \/ \E t \in Txns : transaction_commit(t)
    \/ \E t \in Txns : transaction_transaction(t, FALSE)
    \/ \E t \in Txns : database_open(t)
    \/ \E d \in Dbs, x \in Txns : database_cursor(d, x, FALSE)
    \/ \E t \in Txns : transaction_free(t)
    \/ \E d \in Dbs : database_free(d)
    \/ \E c \in Curs : cursor_free(c)
    \/ \E t \in Txns : Reuse(t)

SpecFin == Init /\ [][NextFin]_vars

\* The position of step e in the handler's program order, 0 if it did not happen.
Pos(q, e) == IF \E i \in 1..Len(q) : q[i] = e THEN CHOOSE i \in 1..Len(q) : q[i] = e ELSE 0

\* Step a, when it happened, came before step b.
Before(q, a, b) == Pos(q, a) # 0 /\ Pos(q, b) # 0 => Pos(q, a) < Pos(q, b)

\* C12: in every finalizer the object's own cleanup (the abort of an active
\* Transaction, the close of an open Cursor or Database) comes before the
\* drop of each reference the object owns, at every level of the recursion;
\* a Database or Cursor that is still open is closed by its finalizer.
C12_CleanupBeforeDeref ==
    [][LET q == result'.ev.seq
       IN /\ \A d \in Dbs :
                /\ Before(q, <<"dbi_close", d>>, <<"db_deref", d>>)
                /\ (result'.op = "db_free" /\ result'.obj = d)
                   => /\ Pos(q, <<"db_deref", d>>) # 0
                      /\ db[d].open <=> Pos(q, <<"dbi_close", d>>) # 0
          /\ \A c \in Curs :
                /\ Before(q, <<"cursor_close", c>>, <<"cur_deref", c>>)
                /\ (result'.op = "cur_free" /\ result'.obj = c)
                   => /\ Pos(q, <<"cur_deref", c>>) # 0
                      /\ cur[c].cur <=> Pos(q, <<"cursor_close", c>>) # 0
          /\ \A t \in result'.ev.fin :
                /\ Before(q, <<"abort", t>>, <<"parent_deref", t>>)
                /\ Before(q, <<"abort", t>>, <<"env_deref", t>>)
                /\ Pos(q, <<"env_deref", t>>) # 0
                /\ tx[t].parent # 0 => Pos(q, <<"parent_deref", t>>) # 0]_vars

\* A Database finalizer closed the table, then dropped its reference; that
\* released a nested transaction, which was aborted before it dropped its
\* parent's reference.
C12_Witness ==
    /\ result.op = "db_free"
    /\ \E t \in result.ev.fin :
          /\ Pos(result.ev.seq, <<"dbi_close", result.obj>>) = 1
          /\ Pos(result.ev.seq, <<"db_deref", result.obj>>) = 2
          /\ Pos(result.ev.seq, <<"abort", t>>) = 3
          /\ Pos(result.ev.seq, <<"parent_deref", t>>) = 4

\* ------------------------------------------------------------------ closed environment
\* close, the guarded accessors (stat, info, copy, sync, flags, flags=, path)
\* and begin_transaction.
EnvMethods == {"close", "stat", "begin"}

\* C13: once close has nulled the handle of an Environment the host holds,
\* the handle is never non-null again, close does not change the refcount, and every later
\* close, accessor or begin_transaction raises the closed error without
\* calling the engine.
C13_CloseTerminal ==
    [][/\ (env.made /\ env.host /\ env'.host /\ ~env.handle)
          => /\ ~env'.handle
             /\ result'.op \in EnvMethods
                => /\ result'.out = "ClosedError"
                   /\ result'.ev.calls = {} /\ result'.ev.seq = << >>
                   /\ env' = env /\ log' = log
       /\ result'.op = "close" => env'.refcount = env.refcount]_vars

\* ------------------------------------------------------------------ database gate
\* The data operations that take a transaction argument, and the engine
\* function each one calls.
DataMethods == {"get", "drop", "clear", "cursor"}
EngineFn(op) == IF op = "cursor" THEN "cursor_open" ELSE op

\* The handle of t and of every ancestor of t is non-null.
ChainActive(t) == \A a \in Chain(t) : tx[a].txn

\* C14: a Database operation called with transaction argument X passes its
\* validity gate exactly when the Database's open flag is true, the
\* transaction the Database remembers is active and X is active; the engine
\* call is made on X, and a new Cursor is bound to X, whose refcount goes up
\* by one.
C14_DatabaseGate ==
    [][\A d \in Dbs, x \in Txns :
          (result'.op \in DataMethods /\ result'.obj = d /\ result'.arg = x)
          => /\ result'.out \notin {"TerminatedError", "ClosedError"}
                <=> (db[d].open /\ ChainActive(db[d].transaction) /\ ChainActive(x))
             /\ result'.out \notin {"TerminatedError", "ClosedError"}
                => result'.ev.calls = {<<EngineFn(result'.op), x>>}
             /\ result'.out \in {"TerminatedError", "ClosedError"}
                => result'.ev.calls = {} /\ db' = db /\ cur' = cur /\ tx' = tx
             /\ (result'.op = "cursor" /\ result'.out = "ok")
                => \E c \in Curs :
                      /\ ~cur[c].alloc /\ cur'[c].alloc
                      /\ cur'[c].transaction = x /\ cur'[c].cur
                      /\ tx'[x].refcount = tx[x].refcount + 1
                      /\ \A u \in Txns \ {x} : tx'[u] = tx[u]]_vars

\* A Cursor was opened with a transaction argument other than the one the
\* Database remembers, and is bound to the argument.
C14_Witness ==
    /\ result.op = "cursor" /\ result.out = "ok"
    /\ result.arg # db[result.obj].transaction
    /\ result.ev.calls = {<<"cursor_open", result.arg>>}
    /\ \E c \in Curs : cur[c].alloc /\ cur[c].transaction = result.arg

\* ------------------------------------------------------------------ frame of commit and abort
\* C15: a successful commit or abort of Transaction T changes T's own handle
\* to null and nothing else: T's refcount, every other Transaction's handle
\* and refcount, the Databases, the Cursors and the Environment's handle and
\* refcount are unchanged.
C15_TerminateFrame ==
    [][\A t \in Txns :
          (result'.op \in {"commit", "abort"} /\ result'.obj = t /\ result'.out = "ok")
          => /\ tx' = [tx EXCEPT ![t].txn = FALSE]
             /\ db' = db /\ cur' = cur /\ env' = env]_vars

\* A nested transaction with a parent, a child whose handle is non-null, an
\* open Database and an open Cursor was committed.
C15_Witness ==
    /\ result.op = "commit" /\ result.out = "ok"
    /\ ~tx[result.obj].txn /\ tx[result.obj].parent # 0
    /\ tx[tx[result.obj].parent].txn
    /\ \E c \in Txns : tx[c].alloc /\ tx[c].parent = result.obj /\ tx[c].txn
    /\ \E d \in Dbs : db[d].alloc /\ db[d].open /\ db[d].transaction = result.obj
    /\ \E c \in Curs : cur[c].alloc /\ cur[c].cur /\ cur[c].transaction = result.obj

\* ------------------------------------------------------------------ drop and clear
\* What drop and clear do to the open flag: a successful drop sets it to
\* false, a successful clear leaves it true, a rejected one leaves it as it was.
DropClearFlag ==
    \A d \in Dbs :
        (result'.op \in {"drop", "clear"} /\ result'.obj = d)
        => /\ (result'.op = "drop" /\ result'.out = "ok") => (db[d].open /\ ~db'[d].open)
           /\ (result'.op = "clear" /\ result'.out = "ok") => (db[d].open /\ db' = db)
           /\ result'.out # "ok" => db' = db
           /\ cur' = cur /\ tx' = tx /\ env' = env

\* The open flag of Database d was set to false by drop, not by close.
Dropped(d) == db[d].alloc /\ ~db[d].open /\ ~log.dbclose[d]

\* C16 as stated: a successful drop sets the open flag to false, a
\* successful clear leaves it true, a rejected drop or clear leaves it
\* unchanged, and every operation on a dropped Database raises the closed
\* error.
C16_DroppedRaisesClosed ==
    [][/\ DropClearFlag
       /\ \A d \in Dbs :
             (result'.op \in DbMethods /\ result'.obj = d /\ Dropped(d))
             => result'.out = "ClosedError"]_vars

\* C16, amended: the open flag changes as stated; an operation on a dropped
\* Database never reaches the engine and raises the
\* terminated-transaction error when the transaction the Database remembers
\* is no longer active, and the closed error otherwise.
C16_DroppedRaises ==
    [][/\ DropClearFlag
       /\ \A d \in Dbs :
             (result'.op \in DbMethods /\ result'.obj = d /\ Dropped(d))
             => /\ result'.out = IF ChainActive(db[d].transaction)
                                 THEN "ClosedError" ELSE "TerminatedError"
                /\ result'.ev.calls = {} /\ db' = db /\ tx' = tx]_vars

\* A get on a dropped Database whose transaction was committed afterwards
\* raised the terminated-transaction error.
C16_Witness ==
    /\ result.op = "get" /\ result.out = "TerminatedError"
    /\ db[result.obj].alloc /\ ~db[result.obj].open
    /\ ~log.dbclose[result.obj]
    /\ log.ended[db[result.obj].transaction]

\* ------------------------------------------------------------------ accessors
\* C17: Transaction#environment and Transaction#parent called on a
\* Transaction that is not active return the linked Environment and the
\* parent without raising the terminated-transaction error.
C17_GettersExempt ==
    [][\A t \in Txns :
          (result'.op \in {"environment", "parent"} /\ result'.obj = t /\ ~ChainActive(t))
          => result'.out = "ok"]_vars

\* ------------------------------------------------------------------ engine failures
\* C18: whenever the engine returns a non-zero status (from a commit, explicit
\* or at the end of a scoped block, from a renew, or from any other call) the
\* call that caused it raises an error instead of returning normally.
C18_FailuresSurfaced ==
    [][result'.ev.rejected # {} => result'.out # "ok"]_vars

\* ------------------------------------------------------------------ read-only transactions
\* Root transactions begun with every form of the readonly argument, then
\* reset, renewed, committed, aborted and collected.
NextRo ==
    \/ environment_open(FALSE)
    \/ environment_close
    \/ \E r \in ReadonlyArgs : environment_transaction(r, FALSE)
    \/ \E t \in Txns : transaction_abort(t)
    \/ \E t \in Txns : transaction_commit(t)
    \/ \E t \in Txns : transaction_renew(t)
    \/ \E t \in Txns : transaction_reset(t)
    \/ environment_free
    \/ \E t \in Txns : transaction_free(t)

SpecRo == Init /\ [][NextRo]_vars

\* C19: begin_transaction passes the engine's read-only marker exactly when
\* the readonly argument is true; with false, nil or no argument the
\* transaction is begun writable.
C19_ReadonlyIffTrue ==
    [][(result'.op = "begin" /\ result'.ev.calls # {})
       => /\ result'.ev.calls \in {{<<"begin", 0>>}, {<<"begin_rdonly", 0>>}}
          /\ <<"begin_rdonly", 0>> \in result'.ev.calls <=> result'.arg = "true"]_vars

\* ------------------------------------------------------------------ collection of children
\* The finalizers of Transactions, Databases and Cursors.
Finalizers == {"txn_free", "db_free", "cur_free"}

\* C20: a finalizer that runs while the host still holds Transaction t (as
\* the parent of the collected child Transaction, or as the transaction of
\* the collected Database or Cursor) issues no engine abort on t and does
\* not release t's record; t is active afterwards if it was before.
C20_ParentSurvivesChild ==
    [][\A t \in Txns :
          (result'.op \in Finalizers /\ IsTxn(t) /\ tx'[t].host /\ ~tx[t].freed)
          => /\ <<"abort", t>> \notin result'.ev.calls
             /\ t \notin result'.ev.fin
             /\ ~tx'[t].freed
             /\ ChainActive(t) => \A a \in Chain(t) : tx'[a].txn]_vars

\* ------------------------------------------------------------------ memory safety of the finalizers
\* The finalizers of all four kinds of object.
AllFinalizers == Finalizers \cup {"env_free"}

\* C21: whatever the order in which the collector finalizes objects, no
\* finalizer reads, decrements or frees a Transaction or Environment record
\* that was already freed, no record is freed twice, and no refcount falls
\* below zero.
C21_FinalizersSafe ==
    [][result'.op \in AllFinalizers
       => /\ ~result'.ev.uaf
          /\ ~result'.ev.dfree
          /\ env'.refcount >= 0
          /\ \A t \in Txns : tx'[t].refcount >= 0]_vars

\* ------------------------------------------------------------------ engine calls after close
\* C22: once Environment#close has nulled the handle, Database#close and the
\* Database finalizer never call the engine's table-close with it, and no
\* finalizer issues an implicit abort on a transaction of that Environment.
C22_NoCallOnClosedEnv ==
    [][(env.made /\ ~env.freed /\ ~env.handle /\ log.envclose
        /\ result'.op \in AllFinalizers \cup {"db_close"})
       => /\ \A d \in Dbs : Pos(result'.ev.seq, <<"dbi_close", d>>) = 0
          /\ \A t \in Txns : <<"abort", t>> \notin result'.ev.calls]_vars

\* ------------------------------------------------------------------ handles released once
\* Database d's table handle was handed back: closed, or dropped.
DbReleased(d) == db[d].alloc /\ (log.dbclose[d] \/ ~db[d].open)

\* Cursor c's engine handle was handed back.
CurReleased(c) == cur[c].alloc /\ (log.curclose[c] \/ ~cur[c].cur)

\* No step hands a table handle or a cursor handle back a second time, and
\* a finalizer closes the handle exactly when it is still open.
ReleasedOnce ==
    /\ \A d \in Dbs :
          /\ Pos(result'.ev.seq, <<"dbi_close", d>>) # 0 => ~DbReleased(d)
          /\ <<"db", d>> \notin result'.ev.again
          /\ (result'.op = "drop" /\ result'.obj = d /\ result'.out = "ok") => ~DbReleased(d)
          /\ (result'.op = "db_free" /\ result'.obj = d)
             => (Pos(result'.ev.seq, <<"dbi_close", d>>) # 0 <=> db[d].open)
    /\ \A c \in Curs :
          /\ Pos(result'.ev.seq, <<"cursor_close", c>>) # 0 => ~CurReleased(c)
          /\ <<"cur", c>> \notin result'.ev.again
          /\ (result'.op = "cur_free" /\ result'.obj = c)
             => (Pos(result'.ev.seq, <<"cursor_close", c>>) # 0 <=> cur[c].cur)

\* C23 as stated: each table handle and each cursor handle is released at
\* most once, the finalizer closes it only if it is still open, and a close
\* (explicit or at the exit of a cursor block) on an already closed Database
\* or Cursor raises the closed error without calling the engine.
C23_SecondCloseRaisesClosed ==
    [][/\ ReleasedOnce
       /\ \A d \in Dbs :
             (result'.op = "db_close" /\ result'.obj = d /\ DbReleased(d))
             => result'.out = "ClosedError" /\ result'.ev.seq = << >>
       /\ \A c \in Curs :
             (result'.op \in {"cur_close", "cursor_exit"} /\ result'.obj = c /\ CurReleased(c))
             => result'.out = "ClosedError" /\ result'.ev.seq = << >>]_vars

\* C23, amended: each handle is released at most once and the finalizer
\* closes it only if it is still open; a close on an already closed Database
\* or Cursor never reaches the engine and raises the terminated-transaction
\* error when the object's transaction is no longer active, and the closed
\* error otherwise.
C23_SecondCloseRaises ==
    [][/\ ReleasedOnce
       /\ \A d \in Dbs :
             (result'.op = "db_close" /\ result'.obj = d /\ DbReleased(d))
             => /\ result'.out = IF ChainActive(db[d].transaction)
                                 THEN "ClosedError" ELSE "TerminatedError"
                /\ result'.ev.seq = << >> /\ result'.ev.calls = {} /\ db' = db
       /\ \A c \in Curs :
             (result'.op \in {"cur_close", "cursor_exit"} /\ result'.obj = c /\ CurReleased(c))
             => /\ result'.out = IF ChainActive(cur[c].transaction)
                                 THEN "ClosedError" ELSE "TerminatedError"
                /\ result'.ev.seq = << >> /\ result'.ev.calls = {} /\ cur' = cur]_vars

\* A Cursor that had been closed was finalized: the finalizer did not close
\* it again and dropped its transaction reference.
C23_Witness ==
    /\ result.op = "cur_free"
    /\ log.curclose[result.obj] /\ ~cur[result.obj].cur
    /\ Pos(result.ev.seq, <<"cursor_close", result.obj>>) = 0
    /\ Pos(result.ev.seq, <<"cur_deref", result.obj>>) # 0

====
